---- MODULE Spec2Model ----
(***************************************************************************)
(* Model of the calibration loop of PFC_Bayesian_Optimization:             *)
(*   - the knowledge base (source_code/knowledge_base_manager.py),         *)
(*   - the failover gateway run_simulation (main_optimization.py),         *)
(*   - the objective function handed to gp_minimize (main_optimization.py).*)
(*                                                                         *)
(* Python values are modelled as follows.                                  *)
(*   dict of parameters : a sequence of <<name, value>> pairs, in          *)
(*                        insertion order (Python dicts keep it)           *)
(*   DataFrame          : a record [Strain |-> seq, Stress |-> seq]        *)
(*   Optional value     : a sequence of length 0 (None) or 1               *)
(*   float loss         : an integer in thousandths; the literal 1e10 is   *)
(*                        PENALTY, a number above every computed loss      *)
(***************************************************************************)
EXTENDS Integers, Sequences, FiniteSets, TLC

VARIABLES
    kb,                 \* the knowledge_base directory: fingerprint -> record
    pc,                 \* position of the client process
    params,             \* params / params_dict of the current call (a dict)
    iteration_counter,  \* global iteration_counter of main_optimization.py
    srv,                \* index into SERVER_LIST of the endpoint being tried
    attempts,           \* history: the endpoints tried in this run_simulation call
    hit,                \* cached_result is not None, in this call
    sim,                \* how run_simulation ended, and the DataFrame it returned
    loss,               \* the local variable loss of objective_function
    ret,                \* what objective_function handed to the optimizer
    exc,                \* history: where this call raised inside objective_function
    fp,                 \* param_hash computed by the last knowledge-base operation
    endpoints,          \* environment: how each worker behaves during this call
    obtained,           \* history: parameter mapping -> the curve last put for it
    target,             \* index of target_filename in target_files (0 before the first)
    x_prior,            \* x_prior of __main__: the prior points handed to gp_minimize
    y_prior,            \* y_prior of __main__: their losses
    n_initial,          \* n_initial of __main__
    worker,             \* start_blocking_server: position, conn, data, params, results_dict
    link,               \* per client connection: bytes in flight each way, and who closed
    client,             \* per client: position in run_simulation, bytes read, outcome
    trace,              \* history per connection: bytes written by each side, simulations
    s1, s2,             \* dtw_distance: the two curves, as sequences of <<strain, stress>>
    rows,               \* dtw_distance: <<s1.shape[0], s2.shape[0]>>
    cost_matrix,        \* dtw_distance: cost_matrix, indexed from 1
    dpc, di, dj,        \* dtw_distance: position and the loop indices i, j (from 1)
    dtw_result,         \* dtw_distance: the value returned, if any
    sock                \* run_simulation: the socket s, whether open and its timeout

\* the variables of the warm start
warmvars == <<target, x_prior, y_prior, n_initial>>

\* the variables of the worker, its connections and its clients
wirevars == <<worker, link, client, trace>>

\* the variables of dtw_distance
dtwvars == <<s1, s2, rows, cost_matrix, dpc, di, dj, dtw_result>>

\* the variables the gateway and the objective function leave alone
extvars == <<warmvars, wirevars, dtwvars>>

\* the variables of the gateway and the objective function
gatevars == <<pc, params, iteration_counter, srv, attempts, hit, sim, loss, ret, exc, fp,
              endpoints, obtained, sock>>

\* the same, but for the position
gatevars_but_pc == <<params, iteration_counter, srv, attempts, hit, sim, loss, ret, exc, fp,
                     endpoints, obtained, sock>>

\* the variables of the gateway, the objective function and the knowledge base
corevars == <<kb, pc, params, iteration_counter, srv, attempts, hit, sim, loss, ret,
              exc, fp, endpoints, obtained, sock>>

vars == <<corevars, extvars>>

-----------------------------------------------------------------------------
(* Bounds of the model *)

\* number of entries of SERVER_LIST (a configuration list; one entry in the source)
NumServers == 2
\* values the optimizer may propose for the varied field
MaxVal == 2
\* longest curve a worker returns
MaxCurveLen == 5
\* objective evaluations per run (N_CALLS, 10 in the source)
MaxCalls == 2
\* number of target files found in TARGET_DATA_DIR
NumTargets == 2
\* number of clients that connect to one worker
NumClients == 2
\* largest number of points of a curve handed to dtw_distance
MaxDtwLen == 3

(* Program constants *)

\* loss = 1e10
PENALTY == 2000000000
\* sim_df.shape[0] < 5
MIN_SAMPLES == 5
W_PEAK_POINT == 1
W_MAX_STRAIN == 1
N_INITIAL_POINTS == 5

ACK_LITERAL == "ACK_RECEIVED"

-----------------------------------------------------------------------------
(* Parameter sets *)

\* the names of PARAMETER_SPACE, in the order of the list
PARAMETER_SPACE == <<"emod", "kratio", "pb_emod", "pb_fric", "pb_coh", "pb_ten">>

\* Python's ordering of these strings, which json.dumps(sort_keys=True) uses
KeyOrder == <<"emod", "kratio", "pb_coh", "pb_emod", "pb_fric", "pb_ten">>

KeyRank(name) == CHOOSE i \in 1..Len(KeyOrder) : KeyOrder[i] = name

KeyLess(a, b) == KeyRank(a) < KeyRank(b)

Reverse(s) == [i \in 1..Len(s) |-> s[Len(s) + 1 - i]]

\* points of the search space the optimizer proposes: the field pb_emod varies
Points == { [i \in 1..Len(PARAMETER_SPACE) |-> IF i = 3 THEN v ELSE 1] : v \in 1..MaxVal }

\* use_named_args: the dict of a point, keys in the order of PARAMETER_SPACE
NamedArgs(x) == [i \in 1..Len(PARAMETER_SPACE) |-> <<PARAMETER_SPACE[i], x[i]>>]

\* the same name -> value pairs, inserted in another order
DictInOrder(names, x) ==
    [i \in 1..Len(names) |->
        <<names[i], x[CHOOSE j \in 1..Len(PARAMETER_SPACE) : PARAMETER_SPACE[j] = names[i]]>>]

KeyOrders == {PARAMETER_SPACE, Reverse(PARAMETER_SPACE)}

Dicts == { DictInOrder(names, x) : names \in KeyOrders, x \in Points }

\* the mapping a dict denotes: its set of name -> value pairs
Mapping(d) == { d[i] : i \in 1..Len(d) }

Mappings == { Mapping(NamedArgs(x)) : x \in Points }

-----------------------------------------------------------------------------
(* Curves and DataFrames *)

EmptyDF == [Strain |-> <<>>, Stress |-> <<>>]

Curve(n, v) == [Strain |-> [i \in 1..n |-> i], Stress |-> [i \in 1..n |-> v * i]]

CurveLens == {0, MIN_SAMPLES - 1, MaxCurveLen}

StressLevels == {1, 2}

Curves == { Curve(n, v) : n \in CurveLens, v \in StressLevels }

\* a JSON object whose two lists differ in length
RaggedLists == [Strain |-> <<1, 2>>, Stress |-> <<1>>]

\* DataFrame.shape[0]
Rows(df) == Len(df.Strain)

\* DataFrame.empty
IsEmpty(df) == Rows(df) = 0

-----------------------------------------------------------------------------
(* Knowledge base: source_code/knowledge_base_manager.py *)

\* ensure_kb_directory(): creates the directory when it is missing; the
\* files of an existing directory are left as they are
ensure_kb_directory_recreate(kbv) == [f \in {} |-> kbv[f]]

ensure_kb_directory(kbv) == kbv

\* json.dumps(params_dict, sort_keys=True): the pairs, sorted by key
JsonDumpsUnsorted(d) == d

JsonDumpsSorted(d) == SortSeq(d, LAMBDA a, b : KeyLess(a[1], b[1]))

\* hashlib.sha256(text).hexdigest(): the digest of a text, taken as collision-free
Sha256(text) == <<"sha256", text>>

get_params_hash_insertion_order(params_dict) == Sha256(JsonDumpsUnsorted(params_dict))

get_params_hash(params_dict) == Sha256(JsonDumpsSorted(params_dict))

\* a record file the program wrote, and one that json.load or data[...] rejects
KBRecord(params_dict, sim_df) ==
    [ok |-> TRUE, parameters |-> params_dict,
     strain |-> sim_df.Strain, stress |-> sim_df.Stress]

MalformedRecord == [ok |-> FALSE, parameters |-> <<>>, strain |-> <<>>, stress |-> <<>>]

EmptyKB == [f \in {} |-> MalformedRecord]

\* open(filepath, 'w') + json.dump: creates or replaces the file of this fingerprint
WriteFile(kbv, f, rec) == [g \in DOMAIN kbv \cup {f} |-> IF g = f THEN rec ELSE kbv[g]]

save_to_knowledge_base(kbv, params_dict, sim_df) ==
    WriteFile(kbv, get_params_hash(params_dict), KBRecord(params_dict, sim_df))

\* the result of load_from_knowledge_base: None, a DataFrame, or an exception
load_from_knowledge_base_swapped(kbv, params_dict) ==
    LET f == get_params_hash(params_dict) IN
    IF f \notin DOMAIN kbv THEN [kind |-> "absent", df |-> EmptyDF]
    ELSE IF ~kbv[f].ok THEN [kind |-> "raised", df |-> EmptyDF]
    ELSE [kind |-> "found", df |-> [Strain |-> kbv[f].stress, Stress |-> kbv[f].strain]]

load_from_knowledge_base(kbv, params_dict) ==
    LET f == get_params_hash(params_dict) IN
    IF f \notin DOMAIN kbv THEN [kind |-> "absent", df |-> EmptyDF]
    ELSE IF ~kbv[f].ok THEN [kind |-> "raised", df |-> EmptyDF]
    ELSE [kind |-> "found", df |-> [Strain |-> kbv[f].strain, Stress |-> kbv[f].stress]]

-----------------------------------------------------------------------------
(* Key-point loss: imported from source_code/loss_functions.py *)

Abs(x) == IF x < 0 THEN -x ELSE x

Isqrt(n) == CHOOSE r \in 0..n : r * r <= n /\ (r + 1) * (r + 1) > n

\* Euclidean norm of (x, y), in tenths
Norm(x, y) == Isqrt(100 * (x * x + y * y))

MaxOf(s) == CHOOSE m \in { s[i] : i \in 1..Len(s) } : \A i \in 1..Len(s) : s[i] <= m

\* index of the first maximum (argmax)
ArgMax(s) == CHOOSE i \in 1..Len(s) :
                /\ \A j \in 1..Len(s) : s[j] <= s[i]
                /\ \A j \in 1..(i - 1) : s[j] < s[i]

\* the loss in thousandths; the sentinel when either curve is empty
calculate_keypoint_loss_zero_on_empty(s_tgt, s_simulated, w_peak_point, w_max_strain) ==
    IF IsEmpty(s_tgt) \/ IsEmpty(s_simulated) THEN 0
    ELSE w_peak_point + w_max_strain

calculate_keypoint_loss(s_tgt, s_simulated, w_peak_point, w_max_strain) ==
    IF IsEmpty(s_tgt) \/ IsEmpty(s_simulated) THEN PENALTY
    ELSE LET it == ArgMax(s_tgt.Stress)
             is == ArgMax(s_simulated.Stress)
             tx == s_tgt.Strain[it]
             ty == s_tgt.Stress[it]
             sx == s_simulated.Strain[is]
             sy == s_simulated.Stress[is]
             mt == MaxOf(s_tgt.Strain)
             ms == MaxOf(s_simulated.Strain)
         IN  w_peak_point * ((1000 * Norm(tx - sx, ty - sy)) \div Norm(tx, ty))
             + w_max_strain * ((1000 * Abs(mt - ms)) \div mt)

\* the target curve of the run
s_target == Curve(MIN_SAMPLES, 1)

-----------------------------------------------------------------------------
(* The gateway: run_simulation of main_optimization.py *)

\* SERVER_LIST, as the indices of its entries
SERVER_LIST == 1..NumServers

\* a worker during one call: "down" refuses, times out or fails the handshake;
\* "garbled" acknowledges and then sends no readable result; "up" responds correctly
EndpointStates == {"down", "garbled", "up"}

AllDown == [k \in SERVER_LIST |-> "down"]

NoSim == [kind |-> "none", df |-> EmptyDF]

Returned(df) == [kind |-> "returned", df |-> df]

Raised == [kind |-> "raised", df |-> EmptyDF]

\* what the peer may answer to the first recv(1024)
AckReplies == {ACK_LITERAL, "", "BUSY", "ACK_RECEIVED{"}

\* ack == b'ACK_RECEIVED'
AckMatches(ack) == ack = ACK_LITERAL

\* the result payloads a peer may send before it closes the stream
Payloads == { [wellformed |-> TRUE, df |-> c] : c \in Curves }
                \cup { [wellformed |-> FALSE, df |-> EmptyDF] }
                \cup { [wellformed |-> TRUE, df |-> RaggedLists] }

\* pd.DataFrame(json.loads(data)) raises unless the lists are of one length
DataFrameOk_any(d) == TRUE

DataFrameOk(d) == Len(d.Strain) = Len(d.Stress)

\* json.loads(data) and pd.DataFrame(...) both succeed
Decodes(payload) == payload.wellformed /\ DataFrameOk(payload.df)

\* if cached_result is not None: return cached_result
UseCache_never(cached) == FALSE

UseCache(cached) == cached.kind = "found"

\* except Exception: continue  -- the for loop moves to the next entry
NextServer_retry(k) == k

NextServer_break(k) == NumServers + 1

NextServer(k) == k + 1

\* the statement after the for loop: return pd.DataFrame()
AllFailedResult_raise == Raised

AllFailedResult == Returned(EmptyDF)

\* if not sim_df.empty: save_to_knowledge_base(params_dict, sim_df)
StoreResult_skip(kbv, params_dict, sim_df) == kbv

StoreResult_fresh(kbv, params_dict, sim_df) ==
    IF ~IsEmpty(sim_df) THEN save_to_knowledge_base(EmptyKB, params_dict, sim_df) ELSE kbv

StoreResult(kbv, params_dict, sim_df) ==
    IF ~IsEmpty(sim_df) THEN save_to_knowledge_base(kbv, params_dict, sim_df) ELSE kbv

Attempt(k, result) == [server |-> k, result |-> result, df |-> EmptyDF]

SetLast(log, result, df) ==
    [log EXCEPT ![Len(log)] = [server |-> log[Len(log)].server, result |-> result, df |-> df]]

NoRet == [kind |-> "none", value |-> 0]

\* return loss
ReturnLoss_raise(l) == [kind |-> "raised", value |-> l]

ReturnLoss(l) == [kind |-> "returned", value |-> l]

\* except Exception as e: print(...), then return loss
ExceptReturn_reraise(l) == [kind |-> "raised", value |-> l]

ExceptReturn(l) == [kind |-> "returned", value |-> l]

\* CONNECTION_TIMEOUT of main_optimization.py, in seconds
CONNECTION_TIMEOUT == 10

\* the timeout of a socket: None (wait without limit) or a number of seconds
Unbounded == <<>>

Bounded(seconds) == <<seconds>>

\* no socket: before the with block of line 67 and after it is left
Closed == [open |-> FALSE, timeout |-> Unbounded]

\* socket.socket(...): a new socket blocks without limit until it is told otherwise
NewSocket == [open |-> TRUE, timeout |-> Unbounded]

\* s.settimeout(...) of line 68, left out
settimeout_ignored(so, t) == so

\* s.settimeout(...): lines 68 and 73
settimeout(so, t) == [so EXCEPT !.timeout = t]

\* the attempt on the current endpoint has failed (log is the history with this
\* failure recorded): the for loop continues with the next entry, or ends
FailOver(log) ==
    /\ attempts' = log
    /\ IF NextServer(srv) \in SERVER_LIST
          THEN /\ srv' = NextServer(srv)
               /\ pc' = "connect"
               /\ sim' = sim
          ELSE /\ srv' = 0
               /\ pc' = "check"
               /\ sim' = AllFailedResult
    /\ sock' = Closed
    /\ UNCHANGED <<extvars, kb, params, iteration_counter, hit, loss, ret, exc, fp, endpoints,
                   obtained>>

\* the optimizer calls objective_function with its next point: lines 140-146
Propose(x) ==
    /\ pc = "idle"
    /\ iteration_counter < MaxCalls
    /\ iteration_counter' = iteration_counter + 1
    /\ params' = NamedArgs(x)
    /\ loss' = PENALTY
    /\ pc' = "lookup"
    /\ attempts' = <<>>
    /\ hit' = FALSE
    /\ sim' = NoSim
    /\ srv' = 0
    /\ exc' = "none"
    /\ ret' = NoRet
    /\ endpoints' = AllDown
    /\ UNCHANGED <<extvars, sock, kb, fp, obtained>>

\* run_simulation, lines 59-64: the cache lookup; on a miss the workers are in
\* some state e for the duration of the call
Lookup(e) ==
    /\ pc = "lookup"
    /\ LET cached == load_from_knowledge_base(kb, params) IN
       /\ fp' = get_params_hash(params)
       /\ IF cached.kind = "raised"
             THEN \* the exception leaves run_simulation and is caught by the objective
                  /\ sim' = Raised
                  /\ exc' = "lookup"
                  /\ ret' = ExceptReturn(loss)
                  /\ pc' = "idle"
                  /\ UNCHANGED <<extvars, sock, hit, srv, endpoints>>
             ELSE IF UseCache(cached)
             THEN /\ hit' = TRUE
                  /\ sim' = Returned(cached.df)
                  /\ pc' = "check"
                  /\ UNCHANGED <<extvars, sock, srv, exc, ret, endpoints>>
             ELSE /\ srv' = 1
                  /\ pc' = "connect"
                  /\ endpoints' = e
                  /\ UNCHANGED <<extvars, sock, hit, sim, exc, ret>>
    /\ UNCHANGED <<extvars, sock, kb, params, iteration_counter, attempts, loss, obtained>>

\* the socket is made and given its timeout; s.connect and s.sendall succeed:
\* lines 67-70
ConnectOk ==
    /\ pc = "connect"
    /\ attempts' = Append(attempts, Attempt(srv, "open"))
    /\ sock' = settimeout(NewSocket, Bounded(CONNECTION_TIMEOUT))
    /\ pc' = "await_ack"
    /\ UNCHANGED <<extvars, kb, params, iteration_counter, srv, hit, sim, loss, ret, exc, fp,
                   endpoints, obtained>>

\* s.connect raises (refused, or timed out after CONNECTION_TIMEOUT): lines 85-87
ConnectFails(why) ==
    /\ pc = "connect"
    /\ endpoints[srv] = "down"
    /\ FailOver(Append(attempts, Attempt(srv, why)))

\* ack = s.recv(1024) returns: lines 71-72
RecvAck(ack) ==
    /\ pc = "await_ack"
    /\ IF ack = ACK_LITERAL THEN endpoints[srv] # "down" ELSE endpoints[srv] = "down"
    /\ IF AckMatches(ack)
          THEN /\ pc' = "read_result"
               /\ sock' = settimeout(sock, Unbounded)
               /\ UNCHANGED <<extvars, kb, params, iteration_counter, srv, attempts, hit, sim,
                              loss, ret, exc, fp, endpoints, obtained>>
          ELSE FailOver(SetLast(attempts, IF ack = "" THEN "no_ack" ELSE "wrong_ack",
                                EmptyDF))

\* s.recv raises socket.timeout after CONNECTION_TIMEOUT: lines 85-87
RecvAckTimeout ==
    /\ pc = "await_ack"
    /\ sock.timeout # Unbounded
    /\ endpoints[srv] = "down"
    /\ FailOver(SetLast(attempts, "ack_timeout", EmptyDF))

\* lines 73-84: read until the peer closes, decode, store, return
ReadResult(payload) ==
    /\ pc = "read_result"
    /\ IF Decodes(payload) THEN endpoints[srv] = "up" ELSE endpoints[srv] = "garbled"
    /\ IF Decodes(payload)
          THEN /\ kb' = StoreResult(kb, params, payload.df)
               /\ obtained' = IF IsEmpty(payload.df) THEN obtained
                              ELSE [obtained EXCEPT ![Mapping(params)] = <<payload.df>>]
               /\ sim' = Returned(payload.df)
               /\ attempts' = SetLast(attempts, "ok", payload.df)
               /\ pc' = "check"
               /\ srv' = 0
               /\ sock' = Closed
               /\ UNCHANGED <<extvars, params, iteration_counter, hit, loss, ret, exc, fp,
                              endpoints>>
          ELSE \* json.loads or pd.DataFrame raises: lines 85-87
               FailOver(SetLast(attempts, "bad_payload", EmptyDF))

\* the connection is reset while the result is read: lines 85-87
ReadResultReset ==
    /\ pc = "read_result"
    /\ endpoints[srv] = "garbled"
    /\ FailOver(SetLast(attempts, "reset", EmptyDF))

-----------------------------------------------------------------------------
(* objective_function of main_optimization.py, lines 139-163 *)

\* sim_df.empty or sim_df.shape[0] < 5
Insufficient(df) == IsEmpty(df) \/ Rows(df) < MIN_SAMPLES

\* lines 149-151
RejectCurve ==
    /\ pc = "check"
    /\ Insufficient(sim.df)
    /\ ret' = ReturnLoss(loss)
    /\ pc' = "idle"
    /\ UNCHANGED <<extvars, sock, kb, params, iteration_counter, srv, attempts, hit, sim, loss, exc,
                   fp, endpoints, obtained>>

\* lines 153-157
Score ==
    /\ pc = "check"
    /\ ~Insufficient(sim.df)
    /\ loss' = calculate_keypoint_loss(s_target, sim.df, W_PEAK_POINT, W_MAX_STRAIN)
    /\ pc' = "plot"
    /\ UNCHANGED <<extvars, sock, kb, params, iteration_counter, srv, attempts, hit, sim, ret, exc,
                   fp, endpoints, obtained>>

\* the scoring raises: lines 161-163
ScoreRaises ==
    /\ pc = "check"
    /\ ~Insufficient(sim.df)
    /\ exc' = "scoring"
    /\ ret' = ExceptReturn(loss)
    /\ pc' = "idle"
    /\ UNCHANGED <<extvars, sock, kb, params, iteration_counter, srv, attempts, hit, sim, loss, fp,
                   endpoints, obtained>>

\* lines 159-160, then return loss
Plot ==
    /\ pc = "plot"
    /\ ret' = ReturnLoss(loss)
    /\ pc' = "idle"
    /\ UNCHANGED <<extvars, sock, kb, params, iteration_counter, srv, attempts, hit, sim, loss, exc,
                   fp, endpoints, obtained>>

\* plot_comparison_curve raises (savefig cannot write): lines 161-163
PlotRaises ==
    /\ pc = "plot"
    /\ exc' = "plotting"
    /\ ret' = ExceptReturn(loss)
    /\ pc' = "idle"
    /\ UNCHANGED <<extvars, sock, kb, params, iteration_counter, srv, attempts, hit, sim, loss, fp,
                   endpoints, obtained>>

\* gp_minimize has made its n_calls evaluations
Finish ==
    /\ pc = "idle"
    /\ iteration_counter = MaxCalls
    /\ pc' = "done"
    /\ UNCHANGED <<extvars, sock, kb, params, iteration_counter, srv, attempts, hit, sim, loss, ret,
                   exc, fp, endpoints, obtained>>

-----------------------------------------------------------------------------
(* The wire: byte streams between run_simulation and start_blocking_server *)

Clients == 1..NumClients

\* a byte stream is a sequence of units; a read returns some of them
Take(bytes, n) == SubSeq(bytes, 1, n)

Drop(bytes, n) == SubSeq(bytes, n + 1, Len(bytes))

\* b'ACK_RECEIVED', as two units the stream may deliver apart
ACK_BYTES == <<[t |-> "ACK_"], [t |-> "RECEIVED"]>>

\* json.dumps(params_dict).encode('utf-8')
ParamsJson(d) == <<[t |-> "{"], [t |-> "params", d |-> d], [t |-> "}"]>>

\* json.dumps(results_dict).encode('utf-8')
ResultsJson(df) == <<[t |-> "{"], [t |-> "curve", df |-> df], [t |-> "}"]>>

\* bytes that are not JSON
JunkBytes == <<[t |-> "junk"]>>

\* json.loads(...) succeeds: the text is one complete object
JsonComplete(bytes, body) ==
    /\ Len(bytes) = 3
    /\ bytes[1].t = "{"
    /\ bytes[2].t = body
    /\ bytes[3].t = "}"

\* the simulator is a sequence of the settings applied to its model so far
\* it.command("model new"): the simulator drops the model it holds
ModelNew_keep(m) == m

ModelNew(m) == <<>>

\* the it.command(f"contact ...") lines: the parameters of the request are applied
Configure(m, p) == Append(m, (CHOOSE pr \in Mapping(p) : pr[1] = "pb_emod")[2])

RECURSIVE SumSeq(_)
SumSeq(m) == IF m = <<>> THEN 0 ELSE m[1] + SumSeq(Tail(m))

\* history export 1 2 file ...: the curve of the model as it stands
HistoryOf(m) == Curve(MaxCurveLen, SumSeq(m))

\* how a simulation may go: well, an it.command raises, or the file read fails
SimOutcomes == {"ok", "command_fails", "read_fails"}

\* finally: if os.path.exists(history_filename): os.remove(history_filename)
RemoveHistory(file) == <<>>

\* _run_single_simulation: the simulator and the history file it leaves, and
\* the result: the curve of the history file, or {'Strain': [], 'Stress': []}
\* when a command or the file read fails
run_single_simulation(m, file, p, outcome) ==
    LET built == Configure(ModelNew(m), p)
        exported == IF outcome = "command_fails" THEN file ELSE <<HistoryOf(built)>>
    IN  [model |-> built,
         history_file |-> RemoveHistory(exported),
         results_dict |-> IF outcome = "ok" THEN exported[1] ELSE EmptyDF]

NoConn == 0

WorkerIdle ==
    [pc |-> "accept", conn |-> NoConn, data |-> <<>>, params |-> <<>>,
     results_dict |-> EmptyDF, simulating |-> {}, model |-> <<>>, history_file |-> <<>>]

NoResult == [kind |-> "none", df |-> EmptyDF]

NextEndpoint == [kind |-> "next_endpoint", df |-> EmptyDF]

InitWorker ==
    /\ worker = WorkerIdle
    /\ link = [c \in Clients |-> [c2s |-> <<>>, s2c |-> <<>>, connected |-> FALSE,
                                  accepted |-> FALSE, client_closed |-> FALSE,
                                  worker_closed |-> FALSE]]
    /\ client = [c \in Clients |-> [pc |-> "idle", ack |-> <<>>, data |-> <<>>,
                                    result |-> NoResult]]
    /\ trace = [c \in Clients |-> [sent |-> <<>>, wsent |-> <<>>, acked_on |-> <<>>,
                                   simulated |-> <<>>]]

-----------------------------------------------------------------------------
(* dtw_distance of loss_functions.py: data *)

\* the points curves are made of
DtwPoints == {<<0, 0>>, <<0, 1>>, <<3, 4>>}

\* curves of 0..MaxDtwLen points (the columns of an array of shape (2, n))
DtwCurves == UNION { [1..n -> DtwPoints] : n \in 0..MaxDtwLen }

\* shape[0] of the arrays a caller may hand over
RowCounts == {1, 2, 3}

\* arrays of 0..MaxDtwLen columns whose content is of no concern
BlankCurves == { [i \in 1..n |-> <<0, 0>>] : n \in 0..MaxDtwLen }

\* not (s1.shape[0] != 2 or s2.shape[0] != 2)
ShapeOk_first_only(r) == r[1] = 2

ShapeOk(r) == r[1] = 2 /\ r[2] = 2

\* np.inf: absorbs every addition and is above every finite cost
INF == 1000000000

AddInf(a, b) == IF a = INF \/ b = INF THEN INF ELSE a + b

\* np.linalg.norm(p1 - p2), in tenths
euclidean_distance_signed(p1, p2) == 10 * ((p1[1] - p2[1]) + (p1[2] - p2[2]))

euclidean_distance(p1, p2) == Norm(p1[1] - p2[1], p1[2] - p2[2])

Min2(a, b) == IF a <= b THEN a ELSE b

\* min(cost_matrix[i-1, j], cost_matrix[i, j-1], cost_matrix[i-1, j-1])
MinPrev_no_match(cm, i, j) == Min2(cm[i - 1, j], cm[i, j - 1])

MinPrev(cm, i, j) == Min2(cm[i - 1, j], Min2(cm[i, j - 1], cm[i - 1, j - 1]))

\* no call of dtw_distance is under way
NoDtwCall ==
    /\ s1 = <<>>
    /\ s2 = <<>>
    /\ rows = <<2, 2>>
    /\ dpc = "none"

-----------------------------------------------------------------------------
(* The optimization process *)

NoObtained == [m \in Mappings |-> <<>>]

\* a knowledge base left by earlier processes: empty, or holding an unreadable file
InitialKBs ==
    {EmptyKB} \cup { WriteFile(EmptyKB, get_params_hash(NamedArgs(x)), MalformedRecord) :
                        x \in Points }

InitLocals ==
    /\ params = <<>>
    /\ iteration_counter = 0
    /\ srv = 0
    /\ attempts = <<>>
    /\ hit = FALSE
    /\ sim = NoSim
    /\ loss = PENALTY
    /\ ret = NoRet
    /\ exc = "none"
    /\ fp = <<>>
    /\ endpoints = AllDown
    /\ sock = Closed
    /\ obtained = NoObtained
    /\ target = 0
    /\ x_prior = <<>>
    /\ y_prior = <<>>
    /\ n_initial = N_INITIAL_POINTS
    /\ InitWorker
    /\ cost_matrix = <<>>
    /\ di = 0
    /\ dj = 0
    /\ dtw_result = <<>>

Init ==
    /\ NoDtwCall
    /\ kb \in InitialKBs
    /\ pc = "idle"
    /\ InitLocals

Next ==
    \/ \E x \in Points : Propose(x)
    \/ \E e \in [SERVER_LIST -> EndpointStates] : Lookup(e)
    \/ ConnectOk
    \/ \E why \in {"refused", "timeout"} : ConnectFails(why)
    \/ \E ack \in AckReplies : RecvAck(ack)
    \/ RecvAckTimeout
    \/ \E payload \in Payloads : ReadResult(payload)
    \/ ReadResultReset
    \/ RejectCurve
    \/ Score
    \/ ScoreRaises
    \/ Plot
    \/ PlotRaises
    \/ Finish

Spec == Init /\ [][Next]_vars

-----------------------------------------------------------------------------
(* The knowledge base used on its own, through its two operations *)

KBSave(d, c) ==
    /\ pc \in {"kb", "saved", "loaded"}
    /\ kb' = save_to_knowledge_base(kb, d, c)
    /\ fp' = get_params_hash(d)
    /\ params' = d
    /\ obtained' = [obtained EXCEPT ![Mapping(d)] = <<c>>]
    /\ sim' = NoSim
    /\ pc' = "saved"
    /\ UNCHANGED <<extvars, sock, iteration_counter, srv, attempts, hit, loss, ret, exc, endpoints>>

KBLoad(d) ==
    /\ pc \in {"kb", "saved", "loaded"}
    /\ LET r == load_from_knowledge_base(kb, d) IN
       sim' = IF r.kind = "found" THEN Returned(r.df)
              ELSE IF r.kind = "raised" THEN Raised ELSE NoSim
    /\ fp' = get_params_hash(d)
    /\ params' = d
    /\ pc' = "loaded"
    /\ UNCHANGED <<extvars, sock, kb, iteration_counter, srv, attempts, hit, loss, ret, exc, endpoints,
                   obtained>>

InitKB ==
    /\ NoDtwCall
    /\ kb \in InitialKBs
    /\ pc = "kb"
    /\ InitLocals

NextKB ==
    \/ \E d \in Dicts, c \in Curves : KBSave(d, c)
    \/ \E d \in Dicts : KBLoad(d)

SpecKB == InitKB /\ [][NextKB]_vars

-----------------------------------------------------------------------------
(* Properties of the gateway and the objective function, under Spec *)

\* an attempt that failed before any acknowledgment was matched
Unreachable(result) ==
    result \in {"refused", "timeout", "ack_timeout", "no_ack", "wrong_ack"}

Failed(result) == Unreachable(result) \/ result \in {"bad_payload", "reset"}

\* run_simulation has ended, and it went to the network
MissEnded == sim.kind # "none" /\ ~hit /\ exc # "lookup"

\* C1: when the first worker is unreachable and the second responds correctly, a
\* run_simulation call that misses the cache returns the curve the second worker
\* sent, and raises nothing.
C1_FailoverToSecond ==
    (MissEnded /\ NumServers >= 2 /\ endpoints[1] = "down" /\ endpoints[2] = "up")
        => /\ Len(attempts) = 2
           /\ Unreachable(attempts[1].result)
           /\ attempts[2] = [server |-> 2, result |-> "ok", df |-> sim.df]
           /\ sim.kind = "returned"

C1_Witness ==
    /\ pc = "check"
    /\ ~hit
    /\ endpoints[1] = "down"
    /\ endpoints[2] = "up"
    /\ attempts[1].result = "refused"
    /\ attempts[2].result = "ok"
    /\ sim = Returned(Curve(MIN_SAMPLES, 2))

\* every worker of the list failed its attempt in this call
EveryEndpointFailed ==
    /\ MissEnded
    /\ Len(attempts) = NumServers
    /\ \A i \in 1..NumServers : Unreachable(attempts[i].result)

EvaluationEndedAllUnreachable ==
    pc \in {"idle", "done"} /\ ret.kind # "none" /\ EveryEndpointFailed

C4_OrderedSingleAttempts ==
    /\ Len(attempts) <= NumServers
    /\ \A i \in 1..Len(attempts) :
          /\ attempts[i].server = i
          /\ i < Len(attempts) => Failed(attempts[i].result)
    /\ pc = "connect" =>
          /\ srv = Len(attempts) + 1
          /\ \A i \in 1..Len(attempts) : Failed(attempts[i].result)
    /\ pc \in {"await_ack", "read_result"} =>
          /\ srv = Len(attempts)
          /\ attempts[srv].result = "open"

C4_Witness ==
    /\ pc = "read_result"
    /\ srv = 2
    /\ attempts[1].result = "bad_payload"

\* C5: while the knowledge base holds a record for the fingerprint of the
\* parameter set under evaluation, no connection is open or being opened, and an
\* evaluation served from the cache has made no attempt on any worker.
C5_CacheHitNoNetwork ==
    /\ pc \in {"connect", "await_ack", "read_result"}
          => get_params_hash(params) \notin DOMAIN kb
    /\ hit => attempts = <<>> /\ srv = 0

C5_Witness ==
    /\ pc = "plot"
    /\ hit
    /\ iteration_counter = 2
    /\ attempts = <<>>

\* C6: once a cache-miss evaluation of p has obtained a non-empty curve c from a
\* worker, the knowledge base holds (p, c) from the moment run_simulation returns
\* (before the curve is scored), and every later evaluation of p is served from
\* the cache with c and never goes to the network.
C6_StoredBeforeScoring ==
    \A x \in Points :
        LET p == NamedArgs(x)
            f == get_params_hash(p)
        IN  obtained[Mapping(p)] # <<>> =>
              /\ f \in DOMAIN kb
              /\ kb[f] = KBRecord(p, obtained[Mapping(p)][1])
              /\ (params = p /\ pc \notin {"lookup", "kb", "saved", "loaded"})
                    => /\ sim = Returned(obtained[Mapping(p)][1])
                       /\ pc \notin {"connect", "await_ack", "read_result"}

C6_Witness ==
    /\ pc = "check"
    /\ hit
    /\ obtained[Mapping(params)] = <<Curve(MaxCurveLen, 2)>>
    /\ sim = Returned(Curve(MaxCurveLen, 2))

\* C7 as stated: an evaluation whose curve is empty or has fewer than 5 samples
\* returns the penalty and writes nothing, so no record of the knowledge base
\* holds a curve with fewer than 5 samples.
C7_NoShortCurveStored ==
    /\ (ret.kind # "none" /\ sim.kind = "returned" /\ ~hit /\ Insufficient(sim.df))
          => /\ ret = [kind |-> "returned", value |-> PENALTY]
             /\ get_params_hash(params) \notin DOMAIN kb
    /\ \A f \in DOMAIN kb : kb[f].ok => Len(kb[f].strain) >= MIN_SAMPLES

\* C8 as stated: every exception raised during an objective evaluation (in the
\* cache lookup, the curve retrieval, the scoring or the plotting) makes
\* objective_function return the penalty 1e10.
C8_PenaltyOnEveryException ==
    (ret.kind # "none" /\ exc # "none") => ret = [kind |-> "returned", value |-> PENALTY]

\* C8, amended: an exception raised in the cache lookup, the curve retrieval or
\* the scoring makes objective_function return the penalty 1e10; an exception
\* raised in the plotting, after the loss has been computed, makes it return
\* that computed loss; in every case the function returns a finite number and
\* the optimizer goes on.
C8_ExceptionsNeverEscape ==
    ret.kind # "none" =>
        /\ pc \in {"idle", "done"}
        /\ ret.kind = "returned"
        /\ ret.value \in 0..PENALTY
        /\ exc \in {"lookup", "scoring"} => ret.value = PENALTY
        /\ exc = "plotting" =>
              /\ ~Insufficient(sim.df)
              /\ ret.value = calculate_keypoint_loss(s_target, sim.df,
                                                     W_PEAK_POINT, W_MAX_STRAIN)

C8_Witness ==
    /\ pc = "idle"
    /\ exc = "plotting"
    /\ ret.kind = "returned"
    /\ ret.value < PENALTY

-----------------------------------------------------------------------------
(* Properties of the knowledge base, under SpecKB *)

\* C9: a load of p, after a save of p with the non-empty curve c, returns a curve
\* with the strain and stress sequences of c, whatever was saved for other
\* parameter sets in between and in whatever order the fields of p are given.
C9_RoundTrip ==
    (pc = "loaded" /\ obtained[Mapping(params)] # <<>>
                   /\ ~IsEmpty(obtained[Mapping(params)][1]))
        => /\ sim.kind = "returned"
           /\ sim.df.Strain = obtained[Mapping(params)][1].Strain
           /\ sim.df.Stress = obtained[Mapping(params)][1].Stress

C9_Witness ==
    /\ pc = "loaded"
    /\ params = DictInOrder(Reverse(PARAMETER_SPACE), CHOOSE x \in Points : x[3] = 1)
    /\ sim = Returned(Curve(MIN_SAMPLES - 1, 2))
    /\ Cardinality({f \in DOMAIN kb : kb[f].ok}) >= 2
    /\ \E f \in DOMAIN kb : kb[f].ok /\ kb[f].parameters # params
                                /\ Mapping(kb[f].parameters) = Mapping(params)

\* C10: the fingerprint of a parameter set is the same for every order of its
\* fields, and parameter sets that differ in a field value have different
\* fingerprints: the fingerprint just computed names the record of a stored
\* parameter set exactly when the two hold the same name -> value pairs.
C10_FingerprintIdentity ==
    pc \in {"saved", "loaded"} =>
        /\ \A f \in DOMAIN kb :
              kb[f].ok => ((f = fp) <=> (Mapping(kb[f].parameters) = Mapping(params)))
        /\ \A d \in Dicts :
              (get_params_hash(d) = fp) <=> (Mapping(d) = Mapping(params))

C10_Witness ==
    /\ pc = "loaded"
    /\ \E f \in DOMAIN kb :
          /\ kb[f].ok /\ f = fp /\ kb[f].parameters # params
    /\ \E f \in DOMAIN kb :
          /\ kb[f].ok /\ f # fp /\ Mapping(kb[f].parameters) # Mapping(params)

-----------------------------------------------------------------------------
(* Warm start: warm_start_optimizer of knowledge_base_manager.py, and the   *)
(* loop over the target files of main_optimization.py                        *)

\* the curve of the t-th target file
TargetCurve(t) == Curve(MIN_SAMPLES, t)

\* os.listdir(KNOWLEDGE_BASE_DIR): the files, in an order the system chooses
ListDirs(kbv) ==
    LET n == Cardinality(DOMAIN kbv) IN
    { o \in [1..n -> DOMAIN kbv] : \A i, j \in 1..n : o[i] = o[j] => i = j }

\* params_list = [params_dict[name] for name in param_names]
ParamsList(params_dict) ==
    [i \in 1..Len(PARAMETER_SPACE) |->
        (CHOOSE pr \in Mapping(params_dict) : pr[1] = PARAMETER_SPACE[i])[2]]

\* sim_df = pd.DataFrame({'Strain': data['strain'], 'Stress': data['stress']})
RecordCurve(rec) == [Strain |-> rec.strain, Stress |-> rec.stress]

\* the result of warm_start_optimizer: (x0_prior, y0_prior), or an exception of
\* json.load or of data[...], which the loop over the files does not catch
warm_start_optimizer_first_target(kbv, kb_files, s_tgt, w_peak_point, w_max_strain) ==
    IF Len(kb_files) = 0 THEN [raised |-> FALSE, x0 |-> <<>>, y0 |-> <<>>]
    ELSE IF \E i \in 1..Len(kb_files) : ~kbv[kb_files[i]].ok
         THEN [raised |-> TRUE, x0 |-> <<>>, y0 |-> <<>>]
    ELSE [raised |-> FALSE,
          x0 |-> [i \in 1..Len(kb_files) |-> ParamsList(kbv[kb_files[i]].parameters)],
          y0 |-> [i \in 1..Len(kb_files) |->
                    calculate_keypoint_loss(TargetCurve(1), RecordCurve(kbv[kb_files[i]]),
                                            w_peak_point, w_max_strain)]]

warm_start_optimizer(kbv, kb_files, s_tgt, w_peak_point, w_max_strain) ==
    IF Len(kb_files) = 0 THEN [raised |-> FALSE, x0 |-> <<>>, y0 |-> <<>>]
    ELSE IF \E i \in 1..Len(kb_files) : ~kbv[kb_files[i]].ok
         THEN [raised |-> TRUE, x0 |-> <<>>, y0 |-> <<>>]
    ELSE [raised |-> FALSE,
          x0 |-> [i \in 1..Len(kb_files) |-> ParamsList(kbv[kb_files[i]].parameters)],
          y0 |-> [i \in 1..Len(kb_files) |->
                    calculate_keypoint_loss(s_tgt, RecordCurve(kbv[kb_files[i]]),
                                            w_peak_point, w_max_strain)]]

\* n_initial = 0 if x_prior else N_INITIAL_POINTS
NInitial_always(xp) == N_INITIAL_POINTS

NInitial(xp) == IF Len(xp) > 0 THEN 0 ELSE N_INITIAL_POINTS

\* for target_filename in target_files: ... warm_start_optimizer(...) ... gp_minimize(...)
WarmStart(kb_files) ==
    /\ pc = "next_target"
    /\ target < NumTargets
    /\ target' = target + 1
    /\ iteration_counter' = 0
    /\ LET w == warm_start_optimizer(kb, kb_files, TargetCurve(target + 1),
                                     W_PEAK_POINT, W_MAX_STRAIN)
       IN  IF w.raised
           THEN /\ pc' = "aborted"
                /\ exc' = "warm_start"
                /\ UNCHANGED <<x_prior, y_prior, n_initial>>
           ELSE /\ pc' = "optimizing"
                /\ exc' = "none"
                /\ x_prior' = w.x0
                /\ y_prior' = w.y0
                /\ n_initial' = NInitial(w.x0)
    /\ kb' = ensure_kb_directory(kb)
    /\ UNCHANGED <<wirevars, dtwvars, sock, params, srv, attempts, hit, sim, loss, ret, fp,
                   endpoints, obtained>>

\* one call of objective_function by gp_minimize, as far as the knowledge base
\* is concerned: a cache hit leaves it alone, a miss stores what the gateway returned
WarmEvaluate(x, sim_df) ==
    /\ pc = "optimizing"
    /\ iteration_counter < MaxCalls
    /\ iteration_counter' = iteration_counter + 1
    /\ params' = NamedArgs(x)
    /\ LET cached == load_from_knowledge_base(kb, NamedArgs(x)) IN
       IF cached.kind = "raised"
       THEN /\ hit' = FALSE
            /\ sim' = Raised
            /\ UNCHANGED kb
       ELSE IF UseCache(cached)
       THEN /\ hit' = TRUE
            /\ sim' = Returned(cached.df)
            /\ UNCHANGED kb
       ELSE /\ hit' = FALSE
            /\ sim' = Returned(sim_df)
            /\ kb' = StoreResult(kb, NamedArgs(x), sim_df)
    /\ UNCHANGED <<extvars, sock, pc, srv, attempts, loss, ret, exc, fp, endpoints, obtained>>

\* gp_minimize returns after n_calls evaluations; the loop takes the next file
WarmNextTarget ==
    /\ pc = "optimizing"
    /\ iteration_counter = MaxCalls
    /\ pc' = "next_target"
    /\ UNCHANGED <<extvars, sock, kb, params, iteration_counter, srv, attempts, hit, sim, loss,
                   ret, exc, fp, endpoints, obtained>>

\* what the gateway may return at a cache miss: nothing, a short or a full curve
WarmCurves == {EmptyDF, Curve(MIN_SAMPLES - 1, 2), Curve(MaxCurveLen, 1)}

\* a knowledge base left by earlier processes: empty, holding an unreadable
\* file, or holding a record whose JSON object lists its keys in another order
InitialKBsWarm ==
    InitialKBs \cup
    { save_to_knowledge_base(EmptyKB, DictInOrder(Reverse(PARAMETER_SPACE), x), c) :
         x \in Points, c \in WarmCurves \ {EmptyDF} }

InitWarm ==
    /\ NoDtwCall
    /\ kb \in InitialKBsWarm
    /\ pc = "next_target"
    /\ InitLocals

NextWarm ==
    \/ \E o \in ListDirs(kb) : WarmStart(o)
    \/ \E x \in Points, c \in WarmCurves : WarmEvaluate(x, c)
    \/ WarmNextTarget

SpecWarm == InitWarm /\ [][NextWarm]_vars

-----------------------------------------------------------------------------
(* Properties of the warm start, under SpecWarm *)

\* the optimizer of the current target has just been handed its priors
WarmStarted == pc = "optimizing" /\ iteration_counter = 0

\* C11: a warm start on an empty knowledge base returns no priors, without
\* error, and the optimizer is then started with N_INITIAL_POINTS random
\* initial points; whenever it is started with priors, it is started with 0.
C11_EmptyKBNoPriors ==
    /\ (pc = "aborted" => DOMAIN kb # {})
    /\ (WarmStarted /\ DOMAIN kb = {}) =>
          /\ x_prior = <<>>
          /\ y_prior = <<>>
          /\ n_initial = N_INITIAL_POINTS
    /\ pc = "optimizing" =>
          /\ (x_prior = <<>> => n_initial = N_INITIAL_POINTS)
          /\ (x_prior # <<>> => n_initial = 0)

C11_Witness ==
    /\ WarmStarted
    /\ DOMAIN kb = {}
    /\ target = 2
    /\ n_initial = N_INITIAL_POINTS

\* the values of a stored parameter set, listed in the order of PARAMETER_SPACE
InSearchOrder(xs, params_dict) ==
    /\ Len(xs) = Len(PARAMETER_SPACE)
    /\ \A j \in 1..Len(PARAMETER_SPACE) :
          <<PARAMETER_SPACE[j], xs[j]>> \in Mapping(params_dict)

\* C12: on a knowledge base of n entries the warm start returns n priors, one
\* per entry: x is the entry's parameter values in search-space order and y is
\* the key-point loss of the entry's curve against the current target with the
\* current weights; entries stored while earlier targets were optimized count.
C12_OnePriorPerEntry ==
    (WarmStarted /\ \A f \in DOMAIN kb : kb[f].ok) =>
        /\ Len(x_prior) = Cardinality(DOMAIN kb)
        /\ Len(y_prior) = Cardinality(DOMAIN kb)
        /\ \A f \in DOMAIN kb :
              \E i \in 1..Len(x_prior) :
                 /\ InSearchOrder(x_prior[i], kb[f].parameters)
                 /\ y_prior[i] = calculate_keypoint_loss(TargetCurve(target),
                                                         RecordCurve(kb[f]),
                                                         W_PEAK_POINT, W_MAX_STRAIN)

C12_Witness ==
    /\ WarmStarted
    /\ target = 2
    /\ Len(x_prior) = 2
    /\ \E f \in DOMAIN kb : kb[f].parameters[1][1] # PARAMETER_SPACE[1]
    /\ \E f \in DOMAIN kb : kb[f].parameters[1][1] = PARAMETER_SPACE[1]
    /\ \E i \in 1..2 : 
          \E f \in DOMAIN kb :
             /\ InSearchOrder(x_prior[i], kb[f].parameters)
             /\ y_prior[i] # calculate_keypoint_loss(TargetCurve(1), RecordCurve(kb[f]),
                                                     W_PEAK_POINT, W_MAX_STRAIN)

\* C13: a malformed record in the knowledge base never aborts the warm start,
\* which skips it and returns one prior for every well-formed record.
C13_MalformedRecordSkipped ==
    /\ pc # "aborted"
    /\ WarmStarted =>
          /\ Len(x_prior) = Cardinality({f \in DOMAIN kb : kb[f].ok})
          /\ Len(y_prior) = Cardinality({f \in DOMAIN kb : kb[f].ok})

-----------------------------------------------------------------------------
(* The worker: start_blocking_server of pfc_server02.py, lines 151-192 *)

\* while True: conn, addr = server_socket.accept() -- one connection at a time
AcceptReady_concurrent(w) == w.pc \in {"accept", "simulate"}

AcceptReady(w) == w.pc = "accept"

\* the statement after data = conn.recv(4096): conn.sendall(b'ACK_RECEIVED')
AfterPayload_no_ack == "decode"

AfterPayload == "ack"

\* conn.sendall(bytes): the bytes reach the peer's stream unless it has closed
Deliver(lk, c, bytes) ==
    IF lk[c].client_closed THEN lk ELSE [lk EXCEPT ![c].s2c = lk[c].s2c \o bytes]

\* with conn: ... -- leaving the block closes the connection; request bytes
\* not read by then are discarded
CloseConn(lk, c) == [lk EXCEPT ![c].worker_closed = TRUE, ![c].c2s = <<>>]

Accept(c) ==
    /\ AcceptReady(worker)
    /\ link[c].connected
    /\ ~link[c].accepted
    /\ \A d \in Clients : (d < c /\ link[d].connected) => link[d].accepted
    /\ worker' = [worker EXCEPT !.pc = "recv", !.conn = c, !.data = <<>>]
    /\ link' = [link EXCEPT ![c].accepted = TRUE]
    /\ UNCHANGED <<gatevars, warmvars, dtwvars, kb, client, trace>>

\* data = conn.recv(4096): whatever part of the request has arrived
WorkerRecv(n) ==
    /\ worker.pc = "recv"
    /\ n \in 1..Len(link[worker.conn].c2s)
    /\ worker' = [worker EXCEPT !.data = Take(link[worker.conn].c2s, n),
                                !.pc = AfterPayload]
    /\ link' = [link EXCEPT ![worker.conn].c2s = Drop(link[worker.conn].c2s, n)]
    /\ UNCHANGED <<gatevars, warmvars, dtwvars, kb, client, trace>>

\* if not data: continue
WorkerRecvEmpty_proceeds ==
    /\ worker.pc = "recv"
    /\ link[worker.conn].c2s = <<>>
    /\ link[worker.conn].client_closed
    /\ worker' = [worker EXCEPT !.pc = AfterPayload, !.data = <<>>]
    /\ UNCHANGED <<gatevars, warmvars, dtwvars, kb, client, trace, link>>

WorkerRecvEmpty ==
    /\ worker.pc = "recv"
    /\ link[worker.conn].c2s = <<>>
    /\ link[worker.conn].client_closed
    /\ worker' = [worker EXCEPT !.pc = "accept", !.conn = NoConn]
    /\ link' = CloseConn(link, worker.conn)
    /\ UNCHANGED <<gatevars, warmvars, dtwvars, kb, client, trace>>

\* conn.sendall(b'ACK_RECEIVED')
SendAck ==
    /\ worker.pc = "ack"
    /\ link' = Deliver(link, worker.conn, ACK_BYTES)
    /\ trace' = [trace EXCEPT ![worker.conn].wsent = trace[worker.conn].wsent \o ACK_BYTES,
                              ![worker.conn].acked_on = <<worker.data>>]
    /\ worker' = [worker EXCEPT !.pc = "decode"]
    /\ UNCHANGED <<gatevars, warmvars, dtwvars, kb, client>>

\* params = json.loads(data.decode('utf-8')): an exception is caught nowhere,
\* leaves the loop and closes the connection and the listening socket
DecodeParams ==
    /\ worker.pc = "decode"
    /\ IF JsonComplete(worker.data, "params")
          THEN /\ worker' = [worker EXCEPT !.pc = "simulate",
                                           !.params = worker.data[2].d,
                                           !.simulating = worker.simulating
                                                             \cup {worker.conn}]
               /\ UNCHANGED link
          ELSE /\ worker' = [worker EXCEPT !.pc = "dead"]
               /\ link' = CloseConn(link, worker.conn)
    /\ UNCHANGED <<gatevars, warmvars, dtwvars, kb, client, trace>>

\* results_dict = _run_single_simulation(params)
RunSimulation(outcome) ==
    /\ worker.pc = "simulate"
    /\ LET r == run_single_simulation(worker.model, worker.history_file, worker.params,
                                      outcome)
       IN  worker' = [worker EXCEPT !.pc = "send",
                                    !.results_dict = r.results_dict,
                                    !.model = r.model,
                                    !.history_file = r.history_file,
                                    !.simulating = worker.simulating \ {worker.conn}]
    /\ trace' = [trace EXCEPT ![worker.conn].simulated =
                                 <<[params |-> worker.params, failed |-> outcome # "ok"]>>]
    /\ UNCHANGED <<gatevars, warmvars, dtwvars, kb, client, link>>

\* conn.sendall(results_json.encode('utf-8')), then the with block closes conn
SendResults ==
    /\ worker.pc = "send"
    /\ link' = CloseConn(Deliver(link, worker.conn, ResultsJson(worker.results_dict)),
                         worker.conn)
    /\ trace' = [trace EXCEPT ![worker.conn].wsent =
                    trace[worker.conn].wsent \o ResultsJson(worker.results_dict)]
    /\ worker' = [worker EXCEPT !.pc = "accept", !.conn = NoConn]
    /\ UNCHANGED <<gatevars, warmvars, dtwvars, kb, client>>

\* conn.sendall raises when the peer has gone: caught nowhere, as above
SendResultsBroken ==
    /\ worker.pc = "send"
    /\ link[worker.conn].client_closed
    /\ link' = CloseConn(link, worker.conn)
    /\ worker' = [worker EXCEPT !.pc = "dead"]
    /\ UNCHANGED <<gatevars, warmvars, dtwvars, kb, client, trace>>

-----------------------------------------------------------------------------
(* The clients of one worker: run_simulation, lines 66-87, and foreign peers *)

\* what a peer may write after connecting: a parameter set, or something else
RequestPayloads == { ParamsJson(NamedArgs(x)) : x \in Points } \cup {JunkBytes}

\* peers are numbered in the order in which they turn to the worker
IsNextPeer(c) ==
    /\ client[c].pc = "idle"
    /\ \A d \in Clients : d < c => client[d].pc # "idle"

\* the for loop goes on to the next entry of SERVER_LIST
GiveUp(c) == [client EXCEPT ![c].pc = "done", ![c].data = <<>>, ![c].result = NextEndpoint]

\* s.connect((host, port)); s.sendall(params_json.encode('utf-8'))
ClientSend(c, payload) ==
    /\ IsNextPeer(c)
    /\ worker.pc # "dead"
    /\ link' = [link EXCEPT ![c].connected = TRUE, ![c].c2s = payload]
    /\ trace' = [trace EXCEPT ![c].sent = payload]
    /\ client' = [client EXCEPT ![c].pc = "await_ack"]
    /\ UNCHANGED <<gatevars, warmvars, dtwvars, kb, worker>>

\* a peer that connects and closes without sending
ClientProbe(c) ==
    /\ IsNextPeer(c)
    /\ worker.pc # "dead"
    /\ link' = [link EXCEPT ![c].connected = TRUE, ![c].client_closed = TRUE]
    /\ client' = [client EXCEPT ![c].pc = "done"]
    /\ UNCHANGED <<gatevars, warmvars, dtwvars, kb, worker, trace>>

\* s.connect raises ConnectionRefusedError: nobody listens any more
ClientRefused(c) ==
    /\ IsNextPeer(c)
    /\ worker.pc = "dead"
    /\ client' = GiveUp(c)
    /\ UNCHANGED <<gatevars, warmvars, dtwvars, kb, worker, link, trace>>

\* ack = s.recv(1024); if ack == b'ACK_RECEIVED': ...
ClientRecvAck(c, n) ==
    /\ client[c].pc = "await_ack"
    /\ n \in 1..Len(link[c].s2c)
    /\ IF Take(link[c].s2c, n) = ACK_BYTES
          THEN /\ client' = [client EXCEPT ![c].pc = "read_result",
                                           ![c].ack = Take(link[c].s2c, n)]
               /\ link' = [link EXCEPT ![c].s2c = Drop(link[c].s2c, n)]
          ELSE /\ client' = [GiveUp(c) EXCEPT ![c].ack = Take(link[c].s2c, n)]
               /\ link' = [link EXCEPT ![c].s2c = <<>>, ![c].client_closed = TRUE]
    /\ UNCHANGED <<gatevars, warmvars, dtwvars, kb, worker, trace>>

\* s.recv(1024) returns b'' (the peer closed) or raises (timeout, reset)
ClientRecvAckFails(c) ==
    /\ client[c].pc = "await_ack"
    /\ link[c].s2c = <<>>
    /\ client' = GiveUp(c)
    /\ link' = [link EXCEPT ![c].client_closed = TRUE]
    /\ UNCHANGED <<gatevars, warmvars, dtwvars, kb, worker, trace>>

\* chunk = s.recv(4096); fragments.append(chunk)
ClientRecvChunk(c, n) ==
    /\ client[c].pc = "read_result"
    /\ n \in 1..Len(link[c].s2c)
    /\ client' = [client EXCEPT ![c].data = client[c].data \o Take(link[c].s2c, n)]
    /\ link' = [link EXCEPT ![c].s2c = Drop(link[c].s2c, n)]
    /\ UNCHANGED <<gatevars, warmvars, dtwvars, kb, worker, trace>>

\* if not chunk: break; json.loads(data); save unless empty; return sim_df
ClientRecvEnd(c) ==
    /\ client[c].pc = "read_result"
    /\ link[c].s2c = <<>>
    /\ link[c].worker_closed
    /\ link' = [link EXCEPT ![c].client_closed = TRUE]
    /\ IF JsonComplete(client[c].data, "curve")
          THEN /\ client' = [client EXCEPT ![c].pc = "done", ![c].data = <<>>,
                                           ![c].result = Returned(client[c].data[2].df)]
               /\ kb' = IF JsonComplete(trace[c].sent, "params")
                        THEN StoreResult(kb, trace[c].sent[2].d, client[c].data[2].df)
                        ELSE kb
          ELSE /\ client' = GiveUp(c)
               /\ UNCHANGED kb
    /\ UNCHANGED <<gatevars, warmvars, dtwvars, worker, trace>>

InitWire ==
    /\ NoDtwCall
    /\ kb = EmptyKB
    /\ pc = "wire"
    /\ InitLocals

NextWire ==
    \/ \E c \in Clients : Accept(c)
    \/ \E n \in 1..3 : WorkerRecv(n)
    \/ WorkerRecvEmpty
    \/ SendAck
    \/ DecodeParams
    \/ \E outcome \in SimOutcomes : RunSimulation(outcome)
    \/ SendResults
    \/ SendResultsBroken
    \/ \E c \in Clients, payload \in RequestPayloads : ClientSend(c, payload)
    \/ \E c \in Clients : ClientProbe(c)
    \/ \E c \in Clients : ClientRefused(c)
    \/ \E c \in Clients, n \in 1..5 : ClientRecvAck(c, n)
    \/ \E c \in Clients : ClientRecvAckFails(c)
    \/ \E c \in Clients, n \in 1..3 : ClientRecvChunk(c, n)
    \/ \E c \in Clients : ClientRecvEnd(c)

SpecWire == InitWire /\ [][NextWire]_vars

-----------------------------------------------------------------------------
(* Properties of the worker and the wire, under SpecWire *)

\* C14: on every connection the worker sends the literal ACK_RECEIVED once,
\* after it has received payload bytes and before the simulation starts, and
\* after it only the result payload; no simulation starts or has run on a
\* connection on which the acknowledgment was not sent.
C14_AckOnceBeforeSimulation ==
    /\ \A c \in Clients :
          LET out == trace[c].wsent IN
          /\ out # <<>> =>
                /\ Take(out, Len(ACK_BYTES)) = ACK_BYTES
                /\ \/ Len(out) = Len(ACK_BYTES)
                   \/ JsonComplete(Drop(out, Len(ACK_BYTES)), "curve")
                /\ trace[c].acked_on # <<>>
                /\ trace[c].acked_on[1] # <<>>
          /\ c \in worker.simulating => out = ACK_BYTES
          /\ trace[c].simulated # <<>> => Len(out) >= Len(ACK_BYTES)
    /\ worker.pc \in {"decode", "simulate", "send"} =>
          trace[worker.conn].wsent = ACK_BYTES

C14_Witness ==
    \E c \in Clients :
       /\ trace[c].simulated # <<>>
       /\ trace[c].wsent = ACK_BYTES \o ResultsJson(Curve(MaxCurveLen, 2))
       /\ link[c].worker_closed

\* the connections the worker has accepted and not yet closed
OpenConns == { c \in Clients : link[c].accepted /\ ~link[c].worker_closed }

\* C15: at most one simulation runs on the worker at any time, however many
\* clients are connected: the worker holds at most one accepted connection
\* open, so the next one is accepted only after the previous one was closed.
C15_OneSimulationAtATime ==
    /\ Cardinality(worker.simulating) <= 1
    /\ Cardinality(OpenConns) <= 1
    /\ worker.pc = "accept" => OpenConns = {}

C15_Witness ==
    /\ worker.pc = "simulate"
    /\ worker.simulating = {worker.conn}
    /\ \E c \in Clients :
          /\ c # worker.conn
          /\ client[c].pc = "await_ack"
          /\ link[c].connected
          /\ ~link[c].accepted

\* C16: no request ends the server loop: whatever bytes arrive on an accepted
\* connection, the worker closes it and goes back to accepting.
C16_ServerLoopNeverEnds ==
    /\ worker.pc # "dead"
    /\ worker.pc = "accept" => OpenConns = {}

\* the peer is run_simulation, and its first recv returned bytes
GotBytes(c) ==
    /\ JsonComplete(trace[c].sent, "params")
    /\ client[c].pc = "done"
    /\ client[c].ack # <<>>

\* C17: when the simulation fails on the worker, the worker still sends a
\* result payload of two empty sequences and closes the connection, and the
\* client that reads the stream gets the empty curve, which the objective
\* function scores with the sentinel, without going on to another endpoint.
C17_SimulationFailureIsPenalty ==
    \A c \in Clients :
       (trace[c].simulated # <<>> /\ trace[c].simulated[1].failed) =>
          /\ Len(trace[c].wsent) > Len(ACK_BYTES) =>
                /\ trace[c].wsent = ACK_BYTES \o ResultsJson(EmptyDF)
                /\ link[c].worker_closed
          /\ GotBytes(c) =>
                /\ client[c].result = Returned(EmptyDF)
                /\ Insufficient(client[c].result.df)
                /\ get_params_hash(trace[c].sent[2].d) \in DOMAIN kb =>
                      \E d \in Clients \ {c} : trace[d].sent = trace[c].sent

\* C18: when the worker acknowledged a request, sent a well-formed result
\* payload and closed, the gateway call returns the curve of that payload,
\* however the bytes were split or coalesced across the client's reads.
C18_ResultSurvivesAnyDelivery ==
    \A c \in Clients :
       (/\ GotBytes(c)
        /\ link[c].worker_closed
        /\ Len(trace[c].wsent) > Len(ACK_BYTES)
        /\ JsonComplete(Drop(trace[c].wsent, Len(ACK_BYTES)), "curve")) =>
          client[c].result = Returned(trace[c].wsent[Len(ACK_BYTES) + 2].df)

\* C19: the worker has read the whole request before it acknowledges it, and
\* the parameter set it simulates is the one the client sent.
C19_FullPayloadBeforeAck ==
    \A c \in Clients :
       /\ trace[c].acked_on # <<>> => trace[c].acked_on[1] = trace[c].sent
       /\ trace[c].simulated # <<>> =>
             /\ JsonComplete(trace[c].sent, "params")
             /\ trace[c].simulated[1].params = trace[c].sent[2].d

-----------------------------------------------------------------------------
(* dtw_distance of loss_functions.py, lines 27-81, one step per matrix cell *)

\* where the loops stand after cell (i, j) has been written in the given phase
AfterCell(phase, i, j) ==
    LET M == Len(s1)
        N == Len(s2)
    IN  IF phase = "column" /\ i < M THEN <<"column", i + 1, 1>>
        ELSE IF phase = "column" /\ N >= 2 THEN <<"row", 1, 2>>
        ELSE IF phase = "row" /\ j < N THEN <<"row", 1, j + 1>>
        ELSE IF phase = "row" /\ M >= 2 THEN <<"inner", 2, 2>>
        ELSE IF phase = "inner" /\ j < N THEN <<"inner", i, j + 1>>
        ELSE IF phase = "inner" /\ i < M THEN <<"inner", i + 1, 2>>
        ELSE <<"return", i, j>>

GoTo(pos) ==
    /\ dpc' = pos[1]
    /\ di' = pos[2]
    /\ dj' = pos[3]

\* lines 46-59: the shape test (raise ValueError), the empty test,
\* np.full((M, N), np.inf), cost_matrix[0, 0]
DtwEnter ==
    /\ dpc = "call"
    /\ IF ~ShapeOk(rows)
          THEN /\ dpc' = "raised"
               /\ UNCHANGED <<cost_matrix, di, dj, dtw_result>>
          ELSE IF Len(s1) = 0 \/ Len(s2) = 0
          THEN /\ dtw_result' = <<INF>>
               /\ dpc' = "returned"
               /\ UNCHANGED <<cost_matrix, di, dj>>
          ELSE /\ cost_matrix' = [[c \in (1..Len(s1)) \X (1..Len(s2)) |-> INF]
                                     EXCEPT ![1, 1] = euclidean_distance(s1[1], s2[1])]
               /\ GoTo(AfterCell("column", 1, 1))
               /\ UNCHANGED dtw_result
    /\ UNCHANGED <<corevars, warmvars, wirevars, s1, s2, rows>>

\* lines 62-63
FirstColumn ==
    /\ dpc = "column"
    /\ cost_matrix' = [cost_matrix EXCEPT ![di, 1] =
                          AddInf(cost_matrix[di - 1, 1], euclidean_distance(s1[di], s2[1]))]
    /\ GoTo(AfterCell("column", di, 1))
    /\ UNCHANGED <<corevars, warmvars, wirevars, s1, s2, rows, dtw_result>>

\* lines 66-67
FirstRow ==
    /\ dpc = "row"
    /\ cost_matrix' = [cost_matrix EXCEPT ![1, dj] =
                          AddInf(cost_matrix[1, dj - 1], euclidean_distance(s1[1], s2[dj]))]
    /\ GoTo(AfterCell("row", 1, dj))
    /\ UNCHANGED <<corevars, warmvars, wirevars, s1, s2, rows, dtw_result>>

\* lines 72-78
InnerCell ==
    /\ dpc = "inner"
    /\ cost_matrix' = [cost_matrix EXCEPT ![di, dj] =
                          AddInf(euclidean_distance(s1[di], s2[dj]),
                                 MinPrev(cost_matrix, di, dj))]
    /\ GoTo(AfterCell("inner", di, dj))
    /\ UNCHANGED <<corevars, warmvars, wirevars, s1, s2, rows, dtw_result>>

\* line 81: return cost_matrix[-1, -1]
DtwReturn ==
    /\ dpc = "return"
    /\ dtw_result' = <<cost_matrix[Len(s1), Len(s2)]>>
    /\ dpc' = "returned"
    /\ UNCHANGED <<corevars, warmvars, wirevars, s1, s2, rows, cost_matrix, di, dj>>

InitDTW ==
    /\ kb = EmptyKB
    /\ pc = "dtw"
    /\ InitLocals
    /\ \/ /\ rows = <<2, 2>>
          /\ s1 \in DtwCurves
          /\ s2 \in DtwCurves
       \/ /\ rows \in (RowCounts \X RowCounts) \ {<<2, 2>>}
          /\ s1 \in BlankCurves
          /\ s2 \in BlankCurves
    /\ dpc = "call"

NextDTW ==
    \/ DtwEnter
    \/ FirstColumn
    \/ FirstRow
    \/ InnerCell
    \/ DtwReturn

SpecDTW == InitDTW /\ [][NextDTW]_vars

-----------------------------------------------------------------------------
(* Properties of dtw_distance, under SpecDTW *)

\* the sums of point distances along the monotone warping paths that lead
\* from (1, 1) to (i, j) by steps (1, 0), (0, 1) and (1, 1)
RECURSIVE WarpingPathCosts(_, _, _, _)
WarpingPathCosts(a, b, i, j) ==
    IF i = 1 /\ j = 1 THEN {euclidean_distance(a[1], b[1])}
    ELSE { euclidean_distance(a[i], b[j]) + c :
              c \in (IF i > 1 THEN WarpingPathCosts(a, b, i - 1, j) ELSE {})
                    \cup (IF j > 1 THEN WarpingPathCosts(a, b, i, j - 1) ELSE {})
                    \cup (IF i > 1 /\ j > 1 THEN WarpingPathCosts(a, b, i - 1, j - 1)
                          ELSE {}) }

MinOfSet(S) == CHOOSE m \in S : \A x \in S : m <= x

\* C20: for two non-empty curves dtw_distance returns the last cell of the
\* cost matrix, every cell of which obeys the stated recurrence, and that
\* value is the least sum of point distances over all monotone warping paths.
C20_DtwIsLeastPathCost ==
    (dpc = "returned" /\ Len(s1) > 0 /\ Len(s2) > 0) =>
        /\ dtw_result = <<cost_matrix[Len(s1), Len(s2)]>>
        /\ \A i \in 1..Len(s1), j \in 1..Len(s2) :
              cost_matrix[i, j] =
                 euclidean_distance(s1[i], s2[j])
                 + (IF i = 1 /\ j = 1 THEN 0
                    ELSE IF j = 1 THEN cost_matrix[i - 1, 1]
                    ELSE IF i = 1 THEN cost_matrix[1, j - 1]
                    ELSE MinOfSet({cost_matrix[i - 1, j], cost_matrix[i, j - 1],
                                   cost_matrix[i - 1, j - 1]}))
        /\ dtw_result[1] = MinOfSet(WarpingPathCosts(s1, s2, Len(s1), Len(s2)))

C20_Witness ==
    /\ dpc = "returned"
    /\ Len(s1) = MaxDtwLen
    /\ Len(s2) = 2
    /\ dtw_result # <<>>
    /\ dtw_result[1] > 0
    /\ dtw_result[1] < cost_matrix[Len(s1), 1]

\* C21: for every non-empty curve S dtw_distance(S, S) is 0, and for every
\* pair of non-empty curves dtw_distance is at least 0.
C21_DtwZeroOnSelfNonNegative ==
    (dpc = "returned" /\ Len(s1) > 0 /\ Len(s2) > 0) =>
        /\ dtw_result # <<>>
        /\ dtw_result[1] >= 0
        /\ s1 = s2 => dtw_result[1] = 0

C21_Witness ==
    /\ dpc = "returned"
    /\ Len(s1) = MaxDtwLen
    /\ s1 = s2
    /\ s1[1] # s1[2]
    /\ dtw_result = <<0>>

\* C22: on two-row arrays dtw_distance returns the infinity sentinel, raising
\* nothing, whenever one of them has no points; whenever one of the arrays
\* does not have exactly two rows it raises ValueError and returns nothing.
C22_EmptyIsInfBadShapeRaises ==
    /\ (ShapeOk(rows) /\ dpc \notin {"none", "call"} /\ (Len(s1) = 0 \/ Len(s2) = 0)) =>
          /\ dpc = "returned"
          /\ dtw_result = <<INF>>
    /\ (~(rows[1] = 2 /\ rows[2] = 2) /\ dpc \notin {"none", "call"}) =>
          /\ dpc = "raised"
          /\ dtw_result = <<>>
    /\ dpc = "raised" => ~(rows[1] = 2 /\ rows[2] = 2)

C22_Witness ==
    /\ dpc = "raised"
    /\ rows = <<2, 3>>
    /\ Len(s1) = 0
    /\ Len(s2) = MaxDtwLen

-----------------------------------------------------------------------------
(* calculate_keypoint_loss called on its own, as objective_function and      *)
(* warm_start_optimizer call it                                              *)

\* df[['Strain', 'Stress']].values.T: the array of shape (2, n), by columns
AsArray(df) == [i \in 1..Rows(df) |-> <<df.Strain[i], df.Stress[i]>>]

\* the DataFrame the array was taken from
AsCurve(a) == [Strain |-> [i \in 1..Len(a) |-> a[i][1]],
               Stress |-> [i \in 1..Len(a) |-> a[i][2]]]

\* target and simulated curves of 0..MaxCurveLen samples
LossCurves == { Curve(n, v) : n \in 0..MaxCurveLen, v \in StressLevels }

\* loss = calculate_keypoint_loss(s_target, s_simulated, w_peak_point=..., w_max_strain=...)
KeypointCall ==
    /\ dpc = "keypoint_call"
    /\ loss' = calculate_keypoint_loss(AsCurve(s1), AsCurve(s2), W_PEAK_POINT, W_MAX_STRAIN)
    /\ dpc' = "keypoint_returned"
    /\ UNCHANGED <<sock, kb, pc, params, iteration_counter, srv, attempts, hit, sim, ret, exc, fp,
                   endpoints, obtained, warmvars, wirevars, s1, s2, rows, cost_matrix, di,
                   dj, dtw_result>>

InitLoss ==
    /\ kb = EmptyKB
    /\ pc = "keypoint"
    /\ InitLocals
    /\ rows = <<2, 2>>
    /\ \E c \in LossCurves : s1 = AsArray(c)
    /\ \E c \in LossCurves : s2 = AsArray(c)
    /\ dpc = "keypoint_call"

NextLoss == KeypointCall

SpecLoss == InitLoss /\ [][NextLoss]_vars

\* C23: the key-point loss fails closed: for an empty target or simulated
\* curve it returns the sentinel, and whatever the curves its caller gets a
\* score between 0 and the sentinel, never an error.
C23_KeypointLossFailsClosed ==
    dpc = "keypoint_returned" =>
        /\ (Len(s1) = 0 \/ Len(s2) = 0) => loss = PENALTY
        /\ loss \in 0..PENALTY
        /\ (Len(s1) > 0 /\ Len(s2) > 0) => loss < PENALTY

C23_Witness ==
    /\ dpc = "keypoint_returned"
    /\ Len(s1) = MaxCurveLen
    /\ Len(s2) = 0
    /\ loss = PENALTY

-----------------------------------------------------------------------------
(* Properties of the knowledge base over a whole process, under SpecWarm *)

\* C24: over objective evaluations and warm-start passes the knowledge base
\* only grows: every step keeps every file, and changes the content of a
\* file only by saving again the parameter set whose fingerprint names it.
C24_KnowledgeBaseOnlyGrows ==
    [][\A f \in DOMAIN kb :
          /\ f \in DOMAIN kb'
          /\ kb'[f] # kb[f] =>
                /\ kb'[f].ok
                /\ kb'[f].parameters = params'
                /\ get_params_hash(params') = f]_vars

C24_Witness ==
    /\ pc = "optimizing"
    /\ target = NumTargets
    /\ iteration_counter = MaxCalls
    /\ Cardinality(DOMAIN kb) = Cardinality(Points)
    /\ \E f \in DOMAIN kb : kb[f].parameters[1][1] # PARAMETER_SPACE[1]

-----------------------------------------------------------------------------
(* More properties of the worker, under SpecWire *)

\* the requests whose simulation went well and whose result was sent
Served == { c \in Clients : /\ trace[c].simulated # <<>>
                            /\ ~trace[c].simulated[1].failed
                            /\ Len(trace[c].wsent) > Len(ACK_BYTES) }

ResultSent(c) == trace[c].wsent[Len(ACK_BYTES) + 2].df

\* C25: the worker holds no state across requests: the result of a request
\* is the one a fresh simulator gives for its parameter set, so two requests
\* with the same parameter set get the same result whatever was served in
\* between, and the temporary history file is absent whenever the worker is
\* not inside a simulation, after a success as after a failure.
C25_NoCrossRequestState ==
    /\ \A c \in Served :
          ResultSent(c) = HistoryOf(Configure(<<>>, trace[c].simulated[1].params))
    /\ \A c, d \in Served :
          Mapping(trace[c].simulated[1].params) = Mapping(trace[d].simulated[1].params)
             => ResultSent(c) = ResultSent(d)
    /\ worker.pc # "simulate" => worker.history_file = <<>>

C25_Witness ==
    /\ worker.pc = "accept"
    /\ worker.history_file = <<>>
    /\ \E c, d \in Served :
          /\ c < d
          /\ ResultSent(c) = Curve(MaxCurveLen, 1)
          /\ ResultSent(d) = Curve(MaxCurveLen, 2)

\* the peer connected and closed without sending anything
Probed(c) == link[c].connected /\ trace[c].sent = <<>>

\* C29: on an accepted connection that the peer closed without sending data
\* the worker sends no acknowledgment and starts no simulation; it closes
\* the connection and goes back to accepting.
C29_SilentPeerIsDropped ==
    \A c \in Clients :
       Probed(c) =>
          /\ trace[c].wsent = <<>>
          /\ trace[c].simulated = <<>>
          /\ c \notin worker.simulating
          /\ link[c].accepted =>
                \/ worker.conn = c /\ worker.pc = "recv"
                \/ worker.conn # c /\ link[c].worker_closed

C29_Witness ==
    \E c \in Clients :
       /\ Probed(c)
       /\ link[c].accepted
       /\ link[c].worker_closed
       /\ \E d \in Served : c < d

-----------------------------------------------------------------------------
(* More properties of the gateway, under Spec *)

\* C27: every record the evaluator has written holds a non-empty curve whose
\* strain and stress lists have one length, and the parameter set whose
\* fingerprint is the name of the file.
C27_WrittenRecordsAreCurves ==
    \A f \in DOMAIN kb :
       kb[f].ok =>
          /\ Len(kb[f].strain) > 0
          /\ Len(kb[f].strain) = Len(kb[f].stress)
          /\ get_params_hash(kb[f].parameters) = f
          /\ obtained[Mapping(kb[f].parameters)] # <<>>

C27_Witness ==
    /\ pc = "idle"
    /\ iteration_counter = MaxCalls
    /\ Cardinality({f \in DOMAIN kb : kb[f].ok}) = MaxCalls
    /\ \E i \in 1..Len(attempts) : attempts[i].result = "bad_payload"

-----------------------------------------------------------------------------
(* The read operations of the knowledge base, under SpecKB2: the two         *)
(* operations of SpecKB and a warm-start pass                                *)

\* warm_start_optimizer(...) on the knowledge base as it stands
KBWarmStart(kb_files) ==
    /\ pc \in {"kb", "saved", "loaded"}
    /\ kb' = ensure_kb_directory(kb)
    /\ LET w == warm_start_optimizer(kb, kb_files, s_target, W_PEAK_POINT, W_MAX_STRAIN)
       IN  IF w.raised
           THEN /\ pc' = "warm_raised"
                /\ UNCHANGED <<x_prior, y_prior>>
           ELSE /\ pc' = "warmed"
                /\ x_prior' = w.x0
                /\ y_prior' = w.y0
    /\ UNCHANGED <<gatevars_but_pc, target, n_initial, wirevars, dtwvars>>

NextKB2 ==
    \/ \E d \in Dicts, c \in Curves : KBSave(d, c)
    \/ \E d \in Dicts : KBLoad(d)
    \/ \E o \in ListDirs(kb) : KBWarmStart(o)

SpecKB2 == InitKB /\ [][NextKB2]_vars

\* C28: reading leaves the knowledge base as it is: a lookup, hit or miss,
\* and a warm-start pass change no record, and a lookup of a parameter set
\* that has no file returns absent, not an error.
C28_ReadsChangeNothing ==
    [][/\ pc' \in {"loaded", "warmed", "warm_raised"} => kb' = kb
       /\ (pc' = "loaded" /\ get_params_hash(params') \notin DOMAIN kb) => sim' = NoSim]_vars

C28_Witness ==
    /\ pc = "warmed"
    /\ Len(x_prior) = Cardinality(Points)
    /\ Cardinality(DOMAIN kb) = Cardinality(Points)
    /\ sim = NoSim
    /\ get_params_hash(params) \in DOMAIN kb

-----------------------------------------------------------------------------
(* run_simulation under fair scheduling: main_optimization.py, lines 59-89 *)

\* the steps of run_simulation up to the acknowledgment: the lookup reads a
\* file, and connect, sendall and the first recv run under CONNECTION_TIMEOUT,
\* so each of them ends, with a value or with an exception
Handshake ==
    \/ \E e \in [SERVER_LIST -> EndpointStates] : Lookup(e)
    \/ ConnectOk
    \/ \E why \in {"refused", "timeout"} : ConnectFails(why)
    \/ \E ack \in AckReplies : RecvAck(ack)
    \/ RecvAckTimeout

\* what the peers send here: a full curve, an empty one, and bytes that are no JSON
LivePayloads ==
    { [wellformed |-> TRUE, df |-> c] : c \in {EmptyDF, Curve(MaxCurveLen, 1)} }
        \cup { [wellformed |-> FALSE, df |-> EmptyDF] }

\* the recv loop of lines 75-78 ends when the peer closes or resets the stream
ReadToEnd ==
    \/ \E payload \in LivePayloads : ReadResult(payload)
    \/ ReadResultReset

\* the rest of objective_function, once run_simulation has returned
Evaluate ==
    \/ RejectCurve
    \/ Score
    \/ ScoreRaises
    \/ Plot
    \/ PlotRaises
    \/ Finish

NextLive ==
    \/ \E x \in Points : Propose(x)
    \/ \E e \in [SERVER_LIST -> EndpointStates] : Lookup(e)
    \/ ConnectOk
    \/ \E why \in {"refused", "timeout"} : ConnectFails(why)
    \/ \E ack \in AckReplies : RecvAck(ack)
    \/ RecvAckTimeout
    \/ \E payload \in LivePayloads : ReadResult(payload)
    \/ ReadResultReset
    \/ Evaluate

\* a blocked call of the handshake returns or raises within the timeout; an
\* endpoint that has acknowledged closes its connection in the end
SpecLive ==
    /\ Init
    /\ [][NextLive]_vars
    /\ WF_vars(Handshake)
    /\ WF_vars(ReadToEnd)

\* run_simulation has been called and has not returned or raised
InRunSimulation == pc \in {"lookup", "connect", "await_ack", "read_result"}

\* C26: every run_simulation call returns in the end, when each endpoint
\* fails within the handshake timeout or, having acknowledged, closes the
\* connection in the end; while the acknowledgment is awaited the socket
\* waits at most CONNECTION_TIMEOUT, and it waits without limit only in the
\* read of the result, which only an endpoint that acknowledged reaches.
C26_RunSimulationReturns ==
    /\ [](pc = "await_ack" => sock.open /\ sock.timeout = Bounded(CONNECTION_TIMEOUT))
    /\ []((sock.open /\ sock.timeout = Unbounded) => pc = "read_result")
    /\ [](pc = "read_result" => sock.open /\ endpoints[srv] # "down")
    /\ (InRunSimulation ~> ~InRunSimulation)

\* the first endpoint let the timeout pass, the second acknowledged, sent its
\* result and closed: the call has returned
C26_Witness ==
    /\ pc = "check"
    /\ Len(attempts) = 2
    /\ attempts[1].result = "ack_timeout"
    /\ attempts[2].result = "ok"
    /\ sock = Closed
    /\ sim.kind = "returned"

=============================================================================
